---- MODULE Spec2Model ----
(***************************************************************************)
(* Model of loopy/check.py: the sanity checks run over a kernel snapshot   *)
(* (run_automatic_checks and the checkers it calls) and the comparison of  *)
(* implemented against desired instruction domains                        *)
(* (check_implemented_domains).                                           *)
(*                                                                         *)
(* A kernel snapshot is a record.  Polyhedral sets are finite sets of      *)
(* integer points (functions from variable names to values), so union,     *)
(* intersection, projection, difference, equality and subset are the       *)
(* set operations themselves.                                              *)
(***************************************************************************)
EXTENDS Integers, Sequences, FiniteSets, TLC

VARIABLES kernel, implemented_domains, pc, ran, exc, output

vars == <<kernel, implemented_domains, pc, ran, exc, output>>

(***************************************************************************)
(* Bounds of the model.                                                    *)
(***************************************************************************)
\* hardware axes of each kind (group, local) that tags may name: 0..MaxAxis-1
MaxAxis == 1
\* largest array extent / loop trip count / parameter value
MaxExtent == 2

Axes == 0 .. (MaxAxis - 1)

Min(S) == CHOOSE x \in S : \A y \in S : x <= y

Range(s) == {s[x] : x \in DOMAIN s}

(***************************************************************************)
(* Index tags (loopy.kernel.data).  A tag is a record [kind, axis]; an     *)
(* iname without a tag maps to NoTag (iname_to_tag.get returns None).      *)
(***************************************************************************)
NoTag == [kind |-> "none", axis |-> 0]
GroupIndexTag(ax) == [kind |-> "g", axis |-> ax]
LocalIndexTag(ax) == [kind |-> "l", axis |-> ax]
AutoLocalIndexTag == [kind |-> "l.auto", axis |-> 0]
IlpTag == [kind |-> "ilp", axis |-> 0]
UnrollTag == [kind |-> "unr", axis |-> 0]
OtherUniqueTag == [kind |-> "uniq", axis |-> 0]

IsGroupIndexTag(t) == t.kind = "g"
IsLocalIndexTag(t) == t.kind = "l"
IsAutoLocalIndexTagBase(t) == t.kind = "l.auto"
\* LocalIndexTagBase is the common base of LocalIndexTag and of the
\* automatic local tags
IsLocalIndexTagBase(t) == IsLocalIndexTag(t) \/ IsAutoLocalIndexTagBase(t)
IsParallelTag(t) == t.kind \in {"g", "l", "l.auto", "ilp"}
IsUniqueTag(t) == t.kind \in {"g", "l", "uniq"}
TagKey(t) == <<t.kind, t.axis>>

(***************************************************************************)
(* Kernel accessors.                                                       *)
(***************************************************************************)
\* kernel.insn_inames(insn)
insn_inames(k, insn) == insn.inames

\* kernel.iname_to_tag.get(iname)
iname_to_tag(k, iname) == k.iname_to_tag[iname]

\* kernel.all_inames(): the set variables of all domains
all_inames(k) == UNION {k.domains[d].inames : d \in DOMAIN k.domains}

\* kernel.all_params(): the parameters of all domains
all_params(k) == UNION {k.domains[d].params : d \in DOMAIN k.domains}

\* kernel.get_grid_sizes_as_exprs()
get_grid_sizes_as_exprs(k) == <<k.group_size, k.local_size>>

\* insn.get_assignee_var_name(), insn.get_assignee_indices()
get_assignee_var_name(insn) == insn.assignee.aggregate
get_assignee_indices(insn) == insn.assignee.index

\* DependencyMapper: the variables of a tuple of index expressions, of a
\* reference (its aggregate and its index variables) and of an expression
\* (a sequence of references)
depmap(index) == UNION {index[d].vars : d \in DOMAIN index}
depmap_ref(ref) == {ref.aggregate} \cup depmap(ref.index)
depmap_expr(expr) == UNION {depmap_ref(expr[r]) : r \in DOMAIN expr}

\* values a variable of a domain may take
Vals == 0 .. MaxExtent

\* the restriction of point p to the variables vs
Restrict(p, vs) == [v \in vs |-> p[v]]

\* kernel.get_inames_domain(inames): the domains that hold one of the
\* inames, intersected after aligning their variables; no iname gives the
\* universe over no variable
get_inames_domain(k, inames) ==
    LET ds == {d \in DOMAIN k.domains : k.domains[d].inames \cap inames # {}}
        ins == UNION {k.domains[d].inames : d \in ds}
        pars == UNION {k.domains[d].params : d \in ds}
    IN  [inames |-> ins,
         params |-> pars,
         points |-> {p \in [ins \cup pars -> Vals] :
                        \A d \in ds :
                           Restrict(p, k.domains[d].inames \cup k.domains[d].params)
                              \in k.domains[d].points}]

(***************************************************************************)
(* Verdict of a checker: Ok (it returns) or the exception it raises.      *)
(***************************************************************************)
Ok == [type |-> "ok", msg |-> "", insn |-> "", info |-> <<>>]

Raise(type, msg, insn, info) ==
    [type |-> type, msg |-> msg, insn |-> insn, info |-> info]

IsOk(v) == v.type = "ok"

\* A checker loops over the instructions in order and raises at the first
\* instruction whose body raises; v[n] is the outcome of the body for the
\* n-th instruction.
FirstRaised(v) ==
    IF \A n \in DOMAIN v : IsOk(v[n]) THEN Ok
    ELSE v[Min({n \in DOMAIN v : ~IsOk(v[n])})]

(***************************************************************************)
(* check_for_unused_hw_axes_in_insns                                       *)
(***************************************************************************)
group_axes_used(k, insn) ==
    {iname_to_tag(k, iname).axis : iname \in
        {n \in insn_inames(k, insn) : IsGroupIndexTag(iname_to_tag(k, n))}}

local_axes_used(k, insn) ==
    {iname_to_tag(k, iname).axis : iname \in
        {n \in insn_inames(k, insn) : IsLocalIndexTag(iname_to_tag(k, n))}}

\* faulty variant: an instruction need only use axes of the grid, not all of them
unused_hw_axes_insn_subset(k, insn) ==
    LET group_axes == {ax - 1 : ax \in DOMAIN get_grid_sizes_as_exprs(k)[1]}
        local_axes == {ax - 1 : ax \in DOMAIN get_grid_sizes_as_exprs(k)[2]}
    IN  IF insn.boostable THEN Ok
        ELSE IF ~(group_axes_used(k, insn) \subseteq group_axes)
        THEN Raise("RuntimeError", "does not use all group hw axes", insn.id,
                   <<group_axes, group_axes_used(k, insn)>>)
        ELSE IF ~(local_axes_used(k, insn) \subseteq local_axes)
        THEN Raise("RuntimeError", "does not use all local hw axes", insn.id,
                   <<local_axes, local_axes_used(k, insn)>>)
        ELSE Ok

unused_hw_axes_insn(k, insn) ==
    LET group_axes == {ax - 1 : ax \in DOMAIN get_grid_sizes_as_exprs(k)[1]}
        local_axes == {ax - 1 : ax \in DOMAIN get_grid_sizes_as_exprs(k)[2]}
    IN  IF insn.boostable THEN Ok
        ELSE IF \E iname \in insn_inames(k, insn) :
                    IsAutoLocalIndexTagBase(iname_to_tag(k, iname))
        THEN Raise("RuntimeError", "auto local tag encountered", "", <<>>)
        ELSE IF group_axes # group_axes_used(k, insn)
        THEN Raise("RuntimeError", "does not use all group hw axes", insn.id,
                   <<group_axes, group_axes_used(k, insn)>>)
        ELSE IF local_axes # local_axes_used(k, insn)
        THEN Raise("RuntimeError", "does not use all local hw axes", insn.id,
                   <<local_axes, local_axes_used(k, insn)>>)
        ELSE Ok

check_for_unused_hw_axes_in_insns(k) ==
    FirstRaised([n \in DOMAIN k.instructions |->
                    unused_hw_axes_insn(k, k.instructions[n])])

(***************************************************************************)
(* check_for_double_use_of_hw_axes                                         *)
(***************************************************************************)
\* the inames whose tag's key is already in insn_tag_keys when they are
\* visited: those sharing a key with another iname of the instruction
\* faulty variant: the key of every tag is collected, unique or not
double_use_inames_any_tag(k, insn) ==
    {n \in insn_inames(k, insn) :
        \E m \in insn_inames(k, insn) \ {n} :
           TagKey(iname_to_tag(k, m)) = TagKey(iname_to_tag(k, n))}

double_use_inames(k, insn) ==
    {n \in insn_inames(k, insn) :
        /\ IsUniqueTag(iname_to_tag(k, n))
        /\ \E m \in insn_inames(k, insn) \ {n} :
              /\ IsUniqueTag(iname_to_tag(k, m))
              /\ TagKey(iname_to_tag(k, m)) = TagKey(iname_to_tag(k, n))}

double_use_insn(k, insn) ==
    IF double_use_inames(k, insn) # {}
    THEN Raise("RuntimeError", "has multiple inames tagged", insn.id,
               iname_to_tag(k, CHOOSE n \in double_use_inames(k, insn) : TRUE))
    ELSE Ok

check_for_double_use_of_hw_axes(k) ==
    FirstRaised([n \in DOMAIN k.instructions |->
                    double_use_insn(k, k.instructions[n])])

(***************************************************************************)
(* check_for_inactive_iname_access                                         *)
(***************************************************************************)
inactive_iname_access_insn(k, insn) ==
    LET expression_indices == depmap_expr(insn.expression)
        expression_inames == expression_indices \cap all_inames(k)
    IN  IF ~(expression_inames \subseteq insn_inames(k, insn))
        THEN Raise("RuntimeError", "references inames that the instruction does not depend on",
                   insn.id, <<>>)
        ELSE Ok

check_for_inactive_iname_access(k) ==
    FirstRaised([n \in DOMAIN k.instructions |->
                    inactive_iname_access_insn(k, k.instructions[n])])

(***************************************************************************)
(* check_for_write_races                                                   *)
(***************************************************************************)
\* faulty variant: the lhs index is not looked at
assignee_inames_none(k, insn) == {}

assignee_inames(k, insn) == depmap(get_assignee_indices(insn)) \cap all_inames(k)

\* storage class of the assignee: "arg", "local", "private", "undecided"
\* (temp_var.is_local is True, False or neither) or "invalid"
\* faulty variant: a name that is neither argument nor temporary passes as private
assignee_storage_lenient(k, assignee_name) ==
    IF assignee_name \in DOMAIN k.arg_dict THEN "arg"
    ELSE IF assignee_name \in DOMAIN k.temporary_variables
    THEN k.temporary_variables[assignee_name].is_local
    ELSE "private"

assignee_storage(k, assignee_name) ==
    IF assignee_name \in DOMAIN k.arg_dict THEN "arg"
    ELSE IF assignee_name \in DOMAIN k.temporary_variables
    THEN k.temporary_variables[assignee_name].is_local
    ELSE "invalid"

\* faulty variant: every parallel iname is raceable, whatever the storage
raceable_parallel_insn_inames_any_storage(k, insn, storage) ==
    {iname \in insn_inames(k, insn) : IsParallelTag(iname_to_tag(k, iname))}

raceable_parallel_insn_inames(k, insn, storage) ==
    CASE storage = "arg" ->
           {iname \in insn_inames(k, insn) :
               IsParallelTag(iname_to_tag(k, iname))}
      [] storage = "local" ->
           {iname \in insn_inames(k, insn) :
               /\ IsParallelTag(iname_to_tag(k, iname))
               /\ ~IsGroupIndexTag(iname_to_tag(k, iname))}
      [] storage = "private" ->
           {iname \in insn_inames(k, insn) :
               /\ IsParallelTag(iname_to_tag(k, iname))
               /\ ~IsGroupIndexTag(iname_to_tag(k, iname))
               /\ ~IsLocalIndexTagBase(iname_to_tag(k, iname))}

write_races_insn(k, insn) ==
    LET assignee_name == get_assignee_var_name(insn)
        storage == assignee_storage(k, assignee_name)
    IN  IF ~(assignee_inames(k, insn) \subseteq insn_inames(k, insn))
        THEN Raise("RuntimeError", "assignee references iname that the instruction does not depend on",
                   insn.id, <<>>)
        ELSE IF storage = "undecided"
        THEN Raise("RuntimeError", "temp var hasn't decided on whether it is local",
                   "", assignee_name)
        ELSE IF storage = "invalid"
        THEN Raise("RuntimeError", "invalid assignee name in instruction", insn.id, <<>>)
        ELSE LET race_inames == raceable_parallel_insn_inames(k, insn, storage)
                                   \ assignee_inames(k, insn)
             IN  IF race_inames # {}
                 THEN Raise("WriteRaceConditionError", "contains a write race",
                            insn.id, race_inames)
                 ELSE Ok

check_for_write_races(k) ==
    FirstRaised([n \in DOMAIN k.instructions |->
                    write_races_insn(k, k.instructions[n])])

(***************************************************************************)
(* check_for_orphaned_user_hardware_axes                                   *)
(***************************************************************************)
check_for_orphaned_user_hardware_axes(k) ==
    LET orphaned == {axis \in k.local_sizes :
                        ~\E iname \in DOMAIN k.iname_to_tag :
                            /\ IsLocalIndexTag(k.iname_to_tag[iname])
                            /\ k.iname_to_tag[iname].axis = axis}
    IN  IF orphaned # {}
        THEN Raise("RuntimeError", "user-requested local hardware axis has no iname mapped to it",
                   "", orphaned)
        ELSE Ok

(***************************************************************************)
(* check_for_data_dependent_parallel_bounds                                *)
(***************************************************************************)
data_dependent_parallel_bounds_dom(k, dom) ==
    LET par_inames == {iname \in dom.inames :
                          IsParallelTag(iname_to_tag(k, iname))}
    IN  IF par_inames # {} /\ dom.params \cap DOMAIN k.temporary_variables # {}
        THEN Raise("RuntimeError", "data-dependent parameter and parallel inames",
                   "", par_inames)
        ELSE Ok

check_for_data_dependent_parallel_bounds(k) ==
    FirstRaised([i \in DOMAIN k.domains |->
                    data_dependent_parallel_bounds_dom(k, k.domains[i])])

(***************************************************************************)
(* _AccessCheckMapper.map_subscript and check_bounds                       *)
(***************************************************************************)
RECURSIVE SumVars(_, _)
SumVars(vs, p) ==
    IF vs = {} THEN 0
    ELSE LET v == CHOOSE x \in vs : TRUE
         IN  p[v] + SumVars(vs \ {v}, p)

RECURSIVE MulVars(_, _)
MulVars(vs, p) ==
    IF vs = {} THEN 1
    ELSE LET v == CHOOSE x \in vs : TRUE
         IN  p[v] * MulVars(vs \ {v}, p)

\* value of an index or extent expression at a point of the domain
Eval(term, p) ==
    IF term.op = "lin" THEN SumVars(term.vars, p) + term.off
    ELSE MulVars(term.vars, p) + term.off

\* get_access_range raises isl.Error for a subscript that is not affine
access_range_fails(subscript) ==
    \E d \in DOMAIN subscript : subscript[d].op # "lin"

\* get_access_range(domain, subscript): the index tuples reached, per
\* value of the parameters
get_access_range(domain, subscript) ==
    {[par |-> Restrict(p, domain.params),
      idx |-> [d \in DOMAIN subscript |-> Eval(subscript[d], p)]] :
        p \in domain.points}

\* faulty variant: the slab is 0 <= index[idim] <= shape[idim]
in_shape_domain_inclusive(elem, shape) ==
    \A idim \in DOMAIN elem.idx :
        /\ 0 <= elem.idx[idim]
        /\ elem.idx[idim] <= Eval(shape[idim], elem.par)

\* membership in shape_domain, the intersection of the slabs
\* 0 <= index[idim] < shape[idim]
in_shape_domain(elem, shape) ==
    \A idim \in DOMAIN elem.idx :
        /\ 0 <= elem.idx[idim]
        /\ elem.idx[idim] < Eval(shape[idim], elem.par)

\* arg.shape / tv.shape: None, or the tuple of extents
NoShape == [none |-> TRUE, dims |-> <<>>]
Shape(dims) == [none |-> FALSE, dims |-> dims]

\* shape of the aggregate: that of the argument or temporary, else None
aggregate_shape(k, var_name) ==
    IF var_name \in DOMAIN k.arg_dict THEN k.arg_dict[var_name].shape
    ELSE IF var_name \in DOMAIN k.temporary_variables
    THEN k.temporary_variables[var_name].shape
    ELSE NoShape

\* a reference with an empty index is a plain variable, not a subscript
map_subscript(k, domain, insn_id, expr) ==
    LET shape == aggregate_shape(k, expr.aggregate)
        subscript == expr.index
        available_vars == domain.inames \cup domain.params
    IN  IF Len(subscript) = 0 \/ shape.none THEN Ok
        ELSE IF ~(depmap(subscript) \subseteq available_vars
                  /\ depmap(shape.dims) \subseteq available_vars)
        THEN Ok
        ELSE IF Len(subscript) # Len(shape.dims)
        THEN Raise("RuntimeError", "has the wrong number of indices",
                   insn_id, expr)
        ELSE IF access_range_fails(subscript) THEN Ok
        ELSE IF ~(\A elem \in get_access_range(domain, subscript) :
                     in_shape_domain(elem, shape.dims))
        THEN Raise("RuntimeError", "accesses out-of-bounds array element",
                   insn_id, expr)
        ELSE Ok

\* the references acm visits: those of the expression, then the assignee
insn_refs(insn) == Append(insn.expression, insn.assignee)

bounds_insn(k, insn) ==
    LET domain == get_inames_domain(k, insn_inames(k, insn))
    IN  IF domain.params \cap DOMAIN k.temporary_variables # {} THEN Ok
        ELSE FirstRaised([r \in DOMAIN insn_refs(insn) |->
                 map_subscript(k, domain, insn.id, insn_refs(insn)[r])])

check_bounds(k) ==
    FirstRaised([n \in DOMAIN k.instructions |->
                    bounds_insn(k, k.instructions[n])])

(***************************************************************************)
(* check_write_destinations                                                *)
(***************************************************************************)
\* faulty variant: a parameter of the instruction's own domain may be written
write_destinations_insn_own_domain(k, insn) ==
    LET wvar == get_assignee_var_name(insn)
    IN  IF wvar \in all_inames(k)
        THEN Raise("RuntimeError", "iname may not be written", "", wvar)
        ELSE IF wvar \in all_params(k)
                /\ wvar \notin DOMAIN k.temporary_variables
        THEN Raise("RuntimeError",
                   "domain parameter may not be written--it is not a temporary variable",
                   "", wvar)
        ELSE IF ~(wvar \in DOMAIN k.temporary_variables
                  \/ wvar \in DOMAIN k.arg_dict)
                /\ wvar \notin all_params(k)
        THEN Raise("RuntimeError", "", "", <<>>)
        ELSE Ok

write_destinations_insn(k, insn) ==
    LET wvar == get_assignee_var_name(insn)
        insn_domain == get_inames_domain(k, insn_inames(k, insn))
        insn_params == insn_domain.params
    IN  IF wvar \in all_inames(k)
        THEN Raise("RuntimeError", "iname may not be written", "", wvar)
        ELSE IF wvar \in all_params(k)
                /\ wvar \notin DOMAIN k.temporary_variables
        THEN Raise("RuntimeError",
                   "domain parameter may not be written--it is not a temporary variable",
                   "", wvar)
        ELSE IF wvar \in all_params(k) /\ wvar \in insn_params
        THEN Raise("RuntimeError",
                   "domain parameter may not be written inside a domain dependent on it",
                   "", wvar)
        ELSE IF ~(wvar \in DOMAIN k.temporary_variables
                  \/ wvar \in DOMAIN k.arg_dict)
                /\ wvar \notin all_params(k)
        THEN Raise("RuntimeError", "", "", <<>>)
        ELSE Ok

check_write_destinations(k) ==
    FirstRaised([n \in DOMAIN k.instructions |->
                    write_destinations_insn(k, k.instructions[n])])

(***************************************************************************)
(* run_automatic_checks                                                    *)
(***************************************************************************)
\* faulty variant: the hardware axis coverage check is called first
automatic_checks_coverage_first ==
    << "check_for_unused_hw_axes_in_insns",
       "check_for_double_use_of_hw_axes",
       "check_for_orphaned_user_hardware_axes",
       "check_for_inactive_iname_access",
       "check_for_write_races",
       "check_for_data_dependent_parallel_bounds",
       "check_bounds",
       "check_write_destinations" >>

\* the calls of the try block, in order
automatic_checks ==
    << "check_for_orphaned_user_hardware_axes",
       "check_for_double_use_of_hw_axes",
       "check_for_unused_hw_axes_in_insns",
       "check_for_inactive_iname_access",
       "check_for_write_races",
       "check_for_data_dependent_parallel_bounds",
       "check_bounds",
       "check_write_destinations" >>

call_check(name, k) ==
    CASE name = "check_for_orphaned_user_hardware_axes" ->
           check_for_orphaned_user_hardware_axes(k)
      [] name = "check_for_double_use_of_hw_axes" ->
           check_for_double_use_of_hw_axes(k)
      [] name = "check_for_unused_hw_axes_in_insns" ->
           check_for_unused_hw_axes_in_insns(k)
      [] name = "check_for_inactive_iname_access" ->
           check_for_inactive_iname_access(k)
      [] name = "check_for_write_races" ->
           check_for_write_races(k)
      [] name = "check_for_data_dependent_parallel_bounds" ->
           check_for_data_dependent_parallel_bounds(k)
      [] name = "check_bounds" ->
           check_bounds(k)
      [] name = "check_write_destinations" ->
           check_write_destinations(k)

\* faulty variant: a failure is kept and the remaining checks are still called
after_call_collect(n, v) ==
    IF n < 8 THEN "try"
    ELSE IF ~IsOk(v) THEN "except"
    ELSE "returned"

\* where control goes after the n-th call of the try block gave verdict v:
\* into the except clause when it raised, to the next call, or out
after_call(n, v) ==
    IF ~IsOk(v) THEN "except"
    ELSE IF n < Len(automatic_checks) THEN "try"
    ELSE "returned"

\* the n-th call of the try block
try_call(n) ==
    /\ pc = "try"
    /\ Len(ran) = n - 1
    /\ LET v == call_check(automatic_checks[n], kernel)
       IN  /\ ran' = Append(ran, automatic_checks[n])
           /\ exc' = v
           /\ pc' = after_call(n, v)
    /\ UNCHANGED <<kernel, implemented_domains, output>>

\* what the except clause prints: the banner and the kernel
dump(out, k) == Append(out, [what |-> "failing kernel", kernel |-> k])

\* the except clause: print the kernel, then re-raise
except_clause ==
    /\ pc = "except"
    /\ output' = dump(output, kernel)
    /\ pc' = "raised"
    /\ UNCHANGED <<kernel, implemented_domains, ran, exc>>

(***************************************************************************)
(* check_implemented_domains                                               *)
(***************************************************************************)
\* only idomains[0], the further pieces left out
union_pieces_first_only(idomains) == idomains[1]

\* the union of the pieces (idomains[0] | idomains[1] | ...)
union_pieces(idomains) ==
    [inames |-> idomains[1].inames,
     params |-> idomains[1].params,
     points |-> UNION {idomains[n].points : n \in DOMAIN idomains}]

\* align_two(assumptions, dom) followed by dom & assumptions
intersect_assumptions(dom, assumptions) ==
    [inames |-> dom.inames,
     params |-> dom.params \cup assumptions.params,
     points |-> {p \in [dom.inames \cup dom.params \cup assumptions.params -> Vals] :
                    /\ Restrict(p, dom.inames \cup dom.params) \in dom.points
                    /\ Restrict(p, assumptions.params) \in assumptions.points}]

\* dom.project_out_except(names, [dim_type.set])
project_out_except(dom, names) ==
    [inames |-> dom.inames \cap names,
     params |-> dom.params,
     points |-> {Restrict(p, (dom.inames \cap names) \cup dom.params) :
                    p \in dom.points}]

id_to_insn(k, insn_id) ==
    k.instructions[CHOOSE n \in DOMAIN k.instructions :
                      k.instructions[n].id = insn_id]

insn_impl_domain(k, insn_id, idomains) ==
    project_out_except(
        intersect_assumptions(union_pieces(idomains), k.assumptions),
        insn_inames(k, id_to_insn(k, insn_id)))

desired_domain(k, insn_id) ==
    LET insn == id_to_insn(k, insn_id)
    IN  project_out_except(
            intersect_assumptions(get_inames_domain(k, insn_inames(k, insn)),
                                  k.assumptions),
            insn_inames(k, insn))

\* diff_set.sample_point(): void for an empty set, else some point of it
sample_point(diff_set) ==
    IF diff_set = {} THEN {{}} ELSE {{pt} : pt \in diff_set}

sample_line(kind, pt) ==
    IF pt = {} THEN <<>>
    ELSE <<[kind |-> kind, point |-> CHOOSE x \in pt : TRUE]>>

\* the exceptions the body of the loop may raise for one instruction
\* (one per choice of sample points); none when the domains match
implemented_domains_insn(k, insn_id, idomains) ==
    IF Len(idomains) = 0
    THEN {Raise("AssertionError", "", insn_id, <<>>)}
    ELSE LET impl == insn_impl_domain(k, insn_id, idomains).points
             desired == desired_domain(k, insn_id).points
             i_minus_d == impl \ desired
             d_minus_i == desired \ impl
         IN  IF impl # desired
             THEN {Raise("RuntimeError",
                         "implemented and desired domain do not match", insn_id,
                         sample_line("implemented, but not desired", pt_i)
                            \o sample_line("desired, but not implemented", pt_d)) :
                      pt_i \in sample_point(i_minus_d),
                      pt_d \in sample_point(d_minus_i)}
             ELSE {}

\* the outcomes of check_implemented_domains: it returns when no
\* instruction raises, else it raises for the instruction that comes first
\* in the dictionary's iteration order, which may be any of them
check_implemented_domains(k, impl_domains) ==
    LET raised == UNION {implemented_domains_insn(k, insn_id, impl_domains[insn_id]) :
                            insn_id \in DOMAIN impl_domains}
    IN  IF raised = {} THEN {Ok} ELSE raised

(***************************************************************************)
(* Kernel snapshots the checks are run on.                                 *)
(***************************************************************************)
\* instructions of a snapshot: 1..MaxInsns
MaxInsns == 2

Inames == {"i", "j"}

Var(name) == [op |-> "lin", vars |-> {name}, off |-> 0]
VarPlus(name, c) == [op |-> "lin", vars |-> {name}, off |-> c]
Const(c) == [op |-> "lin", vars |-> {}, off |-> c]
Product(names) == [op |-> "mul", vars |-> names, off |-> 0]
Ref(aggregate, index) == [aggregate |-> aggregate, index |-> index]

\* { 0 <= iname < hi }
Box(iname, hi) ==
    [inames |-> {iname}, params |-> {},
     points |-> {p \in [{iname} -> Vals] : p[iname] < hi}]

\* [par] -> { 0 <= iname < par }
ParamBox(iname, par) ==
    [inames |-> {iname}, params |-> {par},
     points |-> {p \in [{iname, par} -> Vals] : p[iname] < p[par]}]

NoAssumptions == [inames |-> {}, params |-> {}, points |-> {<<>>}]

TagSet ==
    {NoTag, AutoLocalIndexTag, IlpTag, UnrollTag, OtherUniqueTag}
        \cup {GroupIndexTag(ax) : ax \in Axes}
        \cup {LocalIndexTag(ax) : ax \in Axes}

TagMaps == [Inames -> TagSet]

InsnIds == [n \in 1 .. MaxInsns |-> "insn" \o ToString(n)]

\* sequences of 1..MaxInsns instructions, with their ids: one instruction
\* drawn from shapes, at any position, the others drawn from fillers
InsnSeqs(shapes, fillers) ==
    {[n \in DOMAIN q |-> [q[n] EXCEPT !.id = InsnIds[n]]] :
        q \in UNION {{r \in [1 .. len -> shapes \cup fillers] :
                        \E at \in 1 .. len :
                           \A n \in (1 .. len) \ {at} : r[n] \in fillers} :
                     len \in 1 .. MaxInsns}}

BaseInsn ==
    [id |-> "", boostable |-> FALSE, inames |-> {"i"},
     assignee |-> Ref("a", <<Var("i")>>), expression |-> <<>>]

BaseKernel ==
    [iname_to_tag |-> [n \in Inames |-> NoTag],
     domains |-> <<Box("i", MaxExtent), Box("j", MaxExtent)>>,
     instructions |-> <<[BaseInsn EXCEPT !.id = InsnIds[1]]>>,
     temporary_variables |->
        [t \in {"tl", "tp", "tu", "t"} |->
            [is_local |-> CASE t = "tl" -> "local"
                            [] t = "tp" -> "private"
                            [] t = "tu" -> "undecided"
                            [] t = "t" -> "private",
             shape |-> IF t = "t" THEN Shape(<<>>)
                       ELSE Shape(<<Const(MaxExtent)>>)]],
     arg_dict |->
        [a \in {"a", "n"} |->
            [shape |-> IF a = "n" THEN NoShape
                       ELSE Shape(<<Const(MaxExtent)>>)]],
     assumptions |-> NoAssumptions,
     group_size |-> <<>>,
     local_size |-> <<>>,
     local_sizes |-> {}]

NoImplementedDomains == <<>>

\* the state before a check is called on kernel k
Start(k, impl, at) ==
    /\ kernel = k
    /\ implemented_domains = impl
    /\ pc = at
    /\ ran = <<>>
    /\ exc = Ok
    /\ output = <<>>

\* a checker called on its own: it returns or raises
call(name) ==
    /\ pc = "start"
    /\ ran' = <<name>>
    /\ exc' = call_check(name, kernel)
    /\ pc' = IF IsOk(exc') THEN "returned" ELSE "raised"
    /\ UNCHANGED <<kernel, implemented_domains, output>>

(***************************************************************************)
(* Hardware axis checks on their own.                                      *)
(***************************************************************************)
GridSizes == {[ax \in 1 .. n |-> MaxExtent] : n \in 0 .. MaxAxis}

TagInsns ==
    {[BaseInsn EXCEPT !.boostable = b, !.inames = ins] :
        b \in BOOLEAN, ins \in SUBSET Inames}

TagFillers ==
    {[BaseInsn EXCEPT !.boostable = b, !.inames = Inames] : b \in BOOLEAN}

TagInsnSeqs == InsnSeqs(TagInsns, TagFillers)

InitTags ==
    \E tags \in TagMaps, gs \in GridSizes, ls \in GridSizes,
       insns \in TagInsnSeqs :
       Start([BaseKernel EXCEPT !.iname_to_tag = tags, !.group_size = gs,
                                !.local_size = ls, !.instructions = insns],
             NoImplementedDomains, "start")

call_check_for_unused_hw_axes_in_insns ==
    call("check_for_unused_hw_axes_in_insns")

call_check_for_double_use_of_hw_axes ==
    call("check_for_double_use_of_hw_axes")

NextTags ==
    \/ call_check_for_unused_hw_axes_in_insns
    \/ call_check_for_double_use_of_hw_axes

SpecTags == InitTags /\ [][NextTags]_vars

\* the outcome of a checker called on its own is in exc
Called(name) == pc # "start" /\ ran = <<name>>

Insns == kernel.instructions

(***************************************************************************)
(* C7.  check_for_unused_hw_axes_in_insns on a snapshot without AutoLocal  *)
(* tag: it succeeds iff every non-boostable instruction carries, on the    *)
(* tags of its inames, exactly the group axes and exactly the local axes   *)
(* of the grid.  A failure names the first such instruction that does not, *)
(* never a boostable one.  From a snapshot that passes, taking away the    *)
(* only iname that carries some axis from one non-boostable instruction    *)
(* makes the check fail naming that instruction, and untagging that iname  *)
(* makes the check fail.                                                   *)
(***************************************************************************)
C7_NoAutoLocal ==
    \A n \in DOMAIN kernel.iname_to_tag : kernel.iname_to_tag[n] # AutoLocalIndexTag

C7_GroupCarried(insn) ==
    {ax \in Axes : \E n \in insn.inames : kernel.iname_to_tag[n] = GroupIndexTag(ax)}

C7_LocalCarried(insn) ==
    {ax \in Axes : \E n \in insn.inames : kernel.iname_to_tag[n] = LocalIndexTag(ax)}

C7_Covers(insn) ==
    /\ C7_GroupCarried(insn) = 0 .. (Len(kernel.group_size) - 1)
    /\ C7_LocalCarried(insn) = 0 .. (Len(kernel.local_size) - 1)

C7_Uncovered == {n \in DOMAIN Insns : ~Insns[n].boostable /\ ~C7_Covers(Insns[n])}

\* instruction at and iname n: n carries a hardware axis that no other
\* iname of the instruction carries
C7_OnlyCarrier(at, n) ==
    /\ ~Insns[at].boostable
    /\ n \in Insns[at].inames
    /\ kernel.iname_to_tag[n].kind \in {"g", "l"}
    /\ \A m \in Insns[at].inames \ {n} :
          kernel.iname_to_tag[m] # kernel.iname_to_tag[n]

C7_WithoutIname(at, n) ==
    [kernel EXCEPT !.instructions[at].inames = @ \ {n}]

C7_Untagged(n) == [kernel EXCEPT !.iname_to_tag[n] = NoTag]

C7_AxisCoverage ==
    /\ (Called("check_for_unused_hw_axes_in_insns") /\ C7_NoAutoLocal) =>
          /\ IsOk(exc) <=> C7_Uncovered = {}
          /\ ~IsOk(exc) => exc.insn = Insns[Min(C7_Uncovered)].id
    /\ (C7_NoAutoLocal /\ IsOk(check_for_unused_hw_axes_in_insns(kernel))) =>
          \A at \in DOMAIN Insns : \A n \in Inames :
             C7_OnlyCarrier(at, n) =>
                /\ check_for_unused_hw_axes_in_insns(C7_WithoutIname(at, n)).insn
                      = Insns[at].id
                /\ ~IsOk(check_for_unused_hw_axes_in_insns(C7_Untagged(n)))

\* a two-instruction snapshot that passes, with a boostable instruction
\* that covers nothing and a non-boostable one with one carrier per axis
C7_Witness ==
    /\ Called("check_for_unused_hw_axes_in_insns")
    /\ C7_NoAutoLocal
    /\ IsOk(exc)
    /\ Len(kernel.group_size) > 0
    /\ Len(kernel.local_size) > 0
    /\ \E at \in DOMAIN Insns : \E n \in Inames : C7_OnlyCarrier(at, n)
    /\ \E at \in DOMAIN Insns : Insns[at].boostable /\ ~C7_Covers(Insns[at])

(***************************************************************************)
(* C9.  check_for_double_use_of_hw_axes fails iff some instruction has two *)
(* distinct inames whose tags both carry a unique key and the keys are     *)
(* equal.  The failure names the first such instruction and the tag.       *)
(***************************************************************************)
C9_SharedKey(insn, n, m) ==
    /\ n # m
    /\ IsUniqueTag(kernel.iname_to_tag[n])
    /\ IsUniqueTag(kernel.iname_to_tag[m])
    /\ TagKey(kernel.iname_to_tag[n]) = TagKey(kernel.iname_to_tag[m])

C9_DoubleUsers ==
    {at \in DOMAIN Insns :
        \E n \in Insns[at].inames : \E m \in Insns[at].inames :
           C9_SharedKey(Insns[at], n, m)}

C9_DoubleUse ==
    Called("check_for_double_use_of_hw_axes") =>
       /\ ~IsOk(exc) <=> C9_DoubleUsers # {}
       /\ ~IsOk(exc) =>
             /\ exc.insn = Insns[Min(C9_DoubleUsers)].id
             /\ \E n \in Insns[Min(C9_DoubleUsers)].inames :
                \E m \in Insns[Min(C9_DoubleUsers)].inames :
                   /\ C9_SharedKey(Insns[Min(C9_DoubleUsers)], n, m)
                   /\ exc.info = kernel.iname_to_tag[n]

\* the check fails at the second instruction; the first one has two
\* inames with tags without a key, and the shared key is on inames that
\* the first instruction does not have together
C9_Witness ==
    /\ Called("check_for_double_use_of_hw_axes")
    /\ ~IsOk(exc)
    /\ Len(Insns) > 1
    /\ exc.insn = Insns[2].id
    /\ Cardinality(Insns[1].inames) = 1

(***************************************************************************)
(* check_for_write_races on its own.                                       *)
(***************************************************************************)
\* an index tuple that references exactly the variables vs
IndexOver(vs) ==
    IF vs = {} THEN <<Const(0)>>
    ELSE IF vs = {"i"} THEN <<Var("i")>>
    ELSE IF vs = {"j"} THEN <<Var("j")>>
    ELSE <<Var("i"), Var("j")>>

RaceInsns ==
    {[BaseInsn EXCEPT !.inames = ins, !.assignee = Ref(w, IndexOver(idx))] :
        ins \in {{"i", "j"}, {"i"}}, w \in {"a", "tl", "tp", "tu", "x"},
        idx \in SUBSET Inames}

RaceFillers ==
    {[BaseInsn EXCEPT !.inames = {"i", "j"}, !.assignee = Ref(w, IndexOver(idx))] :
        w \in {"a", "tp"}, idx \in {{}, {"i", "j"}}}

RaceInsnSeqs == InsnSeqs(RaceInsns, RaceFillers)

InitRace ==
    \E tags \in TagMaps, insns \in RaceInsnSeqs :
       Start([BaseKernel EXCEPT !.iname_to_tag = tags, !.instructions = insns],
             NoImplementedDomains, "start")

call_check_for_write_races == call("check_for_write_races")

NextRace == call_check_for_write_races

SpecRace == InitRace /\ [][NextRace]_vars

(***************************************************************************)
(* C1.  check_for_write_races, for an instruction whose write-index        *)
(* inames are among its inames and whose target has a decided storage      *)
(* class: the check fails with WriteRaceConditionError iff (raceable set   *)
(* minus the inames of the write index) is non-empty, where the raceable   *)
(* set is the parallel-tagged inames of the instruction for a global       *)
(* argument, those except group-axis-tagged ones for a Local temporary,    *)
(* those except group-axis- and local-axis-tagged ones for a Private       *)
(* temporary; the error names that difference.  The check stops at the     *)
(* first instruction that fails, so the instruction is one that the check  *)
(* gets to: every instruction before it is of that kind and has no race.   *)
(* A local-axis tag is a tag of the local hardware axis kind: LocalAxis    *)
(* with its index, or the AutoLocal placeholder for one.                   *)
(***************************************************************************)
C1_Tag(n) == kernel.iname_to_tag[n]

C1_Target(insn) == insn.assignee.aggregate

C1_IsArg(insn) == C1_Target(insn) \in DOMAIN kernel.arg_dict

C1_IsTemp(insn, locality) ==
    /\ ~C1_IsArg(insn)
    /\ C1_Target(insn) \in DOMAIN kernel.temporary_variables
    /\ kernel.temporary_variables[C1_Target(insn)].is_local = locality

C1_IndexInames(insn) ==
    {n \in Inames : \E d \in DOMAIN insn.assignee.index :
                       n \in insn.assignee.index[d].vars}

C1_Applies(insn) ==
    /\ C1_IndexInames(insn) \subseteq insn.inames
    /\ C1_IsArg(insn) \/ C1_IsTemp(insn, "local") \/ C1_IsTemp(insn, "private")

C1_GroupAxisTagged(n) == C1_Tag(n).kind = "g"

C1_LocalAxisTagged(n) == C1_Tag(n).kind \in {"l", "l.auto"}

C1_Raceable(insn) ==
    {n \in insn.inames :
        /\ IsParallelTag(C1_Tag(n))
        /\ \/ C1_IsArg(insn)
           \/ C1_IsTemp(insn, "local") /\ ~C1_GroupAxisTagged(n)
           \/ /\ C1_IsTemp(insn, "private")
              /\ ~C1_GroupAxisTagged(n)
              /\ ~C1_LocalAxisTagged(n)}

C1_Race(insn) == C1_Raceable(insn) \ C1_IndexInames(insn)

\* the check gets to instruction at
C1_Reached(at) ==
    \A m \in 1 .. (at - 1) : C1_Applies(Insns[m]) /\ C1_Race(Insns[m]) = {}

C1_FailsAt(at) ==
    /\ exc.type = "WriteRaceConditionError"
    /\ exc.insn = Insns[at].id

C1_WriteRaces ==
    Called("check_for_write_races") =>
       /\ \A at \in DOMAIN Insns :
             (C1_Reached(at) /\ C1_Applies(Insns[at])) =>
                /\ C1_FailsAt(at) <=> C1_Race(Insns[at]) # {}
                /\ C1_FailsAt(at) => exc.info = C1_Race(Insns[at])
       /\ (\A at \in DOMAIN Insns : C1_Applies(Insns[at])) =>
             /\ exc.type = "WriteRaceConditionError"
                   <=> \E at \in DOMAIN Insns : C1_Race(Insns[at]) # {}
             /\ exc.type \in {"ok", "WriteRaceConditionError"}

\* a race on a Local temporary at the second instruction, whose raceable
\* set leaves out a group-axis iname, after an instruction without race
C1_Witness ==
    /\ Called("check_for_write_races")
    /\ Len(Insns) > 1
    /\ C1_Reached(2)
    /\ C1_FailsAt(2)
    /\ C1_IsTemp(Insns[2], "local")
    /\ \E n \in Insns[2].inames : C1_GroupAxisTagged(n) /\ n \notin C1_IndexInames(Insns[2])

(***************************************************************************)
(* C2.  The race scenario.  As stated: an instruction writes a Private     *)
(* temporary, its inames are {l, p} with l LocalAxis-tagged, the write     *)
(* index references only p; then check_for_write_races fails with          *)
(* WriteRaceConditionError naming {l}.                                     *)
(***************************************************************************)
C2_Scenario(at, l, p, locality, idx) ==
    /\ C1_Reached(at)
    /\ l # p
    /\ Insns[at].inames = {l, p}
    /\ C1_Tag(l).kind = "l"
    /\ C1_IsTemp(Insns[at], locality)
    /\ C1_IndexInames(Insns[at]) = idx

C2_RaceScenarioAsStated ==
    Called("check_for_write_races") =>
       \A at \in DOMAIN Insns : \A l \in Inames : \A p \in Inames :
          /\ C2_Scenario(at, l, p, "private", {p}) =>
                C1_FailsAt(at) /\ exc.info = {l}
          /\ C2_Scenario(at, l, p, "private", {l, p}) => ~C1_FailsAt(at)

(***************************************************************************)
(* C2 as amended: in that scenario the check does not fail for the Private *)
(* temporary (a LocalAxis-tagged iname is not raceable for it).  With a    *)
(* Local temporary in its place the check fails with                       *)
(* WriteRaceConditionError naming {l}, and widening the write index to     *)
(* reference l as well removes the failure.                                *)
(***************************************************************************)
C2_RaceScenario ==
    Called("check_for_write_races") =>
       \A at \in DOMAIN Insns : \A l \in Inames : \A p \in Inames :
          /\ C2_Scenario(at, l, p, "private", {p}) =>
                IF at = Len(Insns) THEN IsOk(exc) ELSE exc.insn # Insns[at].id
          /\ C2_Scenario(at, l, p, "local", {p}) =>
                C1_FailsAt(at) /\ exc.info = {l}
          /\ C2_Scenario(at, l, p, "local", {l, p}) =>
                IF at = Len(Insns) THEN IsOk(exc) ELSE exc.insn # Insns[at].id

\* the scenario with the Local temporary, failing
C2_Witness ==
    /\ Called("check_for_write_races")
    /\ \E l \in Inames : \E p \in Inames :
          C2_Scenario(1, l, p, "local", {p}) /\ C1_FailsAt(1) /\ exc.info = {l}

(***************************************************************************)
(* run_automatic_checks.                                                   *)
(***************************************************************************)
RunTagMaps ==
    {tags \in TagMaps :
        /\ tags["i"] \in {NoTag, LocalIndexTag(0), AutoLocalIndexTag}
        /\ tags["j"] \in {NoTag, LocalIndexTag(0), GroupIndexTag(0)}}

RunGridSizes == {<<>>, <<MaxExtent>>}

RunLocalSizes == {{}, {0}}

RunDomains ==
    {<<Box("i", MaxExtent), Box("j", MaxExtent)>>,
     <<ParamBox("i", "t"), Box("j", MaxExtent)>>,
     <<ParamBox("i", "n"), Box("j", MaxExtent)>>}

\* assignee and expression of an instruction
RunStatements ==
    {<<Ref("a", <<Var("i")>>), <<>>>>,
     <<Ref("a", <<Var("i")>>), <<Ref("a", <<Var("j")>>)>>>>,
     <<Ref("a", <<VarPlus("i", 1)>>), <<>>>>,
     <<Ref("a", <<Const(0)>>), <<>>>>,
     <<Ref("tp", <<Var("i")>>), <<Ref("a", <<Var("i")>>)>>>>,
     <<Ref("x", <<Var("i")>>), <<>>>>,
     <<Ref("t", <<>>), <<>>>>,
     <<Ref("n", <<>>), <<>>>>}

RunInsns ==
    {[BaseInsn EXCEPT !.boostable = b, !.inames = ins,
                      !.assignee = st[1], !.expression = st[2]] :
        b \in BOOLEAN, ins \in {{"i"}, {"i", "j"}}, st \in RunStatements}

RunFillers ==
    {[BaseInsn EXCEPT !.boostable = TRUE, !.inames = {"i", "j"},
                      !.assignee = Ref("a", <<Var("i"), Var("j")>>)]}

RunInsnSeqs == InsnSeqs(RunInsns, RunFillers)

InitRun ==
    \E tags \in RunTagMaps, gs \in RunGridSizes, ls \in RunGridSizes,
       user \in RunLocalSizes, doms \in RunDomains, insns \in RunInsnSeqs :
       Start([BaseKernel EXCEPT !.iname_to_tag = tags, !.group_size = gs,
                                !.local_size = ls, !.local_sizes = user,
                                !.domains = doms, !.instructions = insns],
             NoImplementedDomains, "try")

run_automatic_checks ==
    \/ \E n \in DOMAIN automatic_checks : try_call(n)
    \/ except_clause

SpecRun == InitRun /\ [][run_automatic_checks]_vars

IsPrefix(p, q) == Len(p) <= Len(q) /\ \A n \in DOMAIN p : p[n] = q[n]

\* the checks of sequence order that snapshot kernel violates
Violated(order) == {n \in DOMAIN order : ~IsOk(call_check(order[n], kernel))}

(***************************************************************************)
(* C3.  As stated: run_automatic_checks executes exactly axis coverage,    *)
(* double-use, inactive-access, write-race, data-dependent parallel        *)
(* bounds, bounds, write-destination, in that order, and the failure       *)
(* reported is that of the earliest violated check in that order.          *)
(***************************************************************************)
C3_StatedOrder ==
    << "check_for_unused_hw_axes_in_insns",
       "check_for_double_use_of_hw_axes",
       "check_for_inactive_iname_access",
       "check_for_write_races",
       "check_for_data_dependent_parallel_bounds",
       "check_bounds",
       "check_write_destinations" >>

C3_Reports(order) ==
    /\ IsPrefix(ran, order)
    /\ pc = "returned" => ran = order /\ Violated(order) = {}
    /\ pc \in {"except", "raised"} =>
          LET violated == Violated(order)
              earliest == call_check(order[Min(violated)], kernel)
          IN  /\ violated # {}
              /\ Len(ran) = Min(violated)
              /\ exc.msg = earliest.msg
              /\ exc.insn = earliest.insn

C3_OrderAsStated == C3_Reports(C3_StatedOrder)

(***************************************************************************)
(* C3 as amended: run_automatic_checks executes orphaned user hardware     *)
(* axes, double-use, axis coverage, inactive-access, write-race,           *)
(* data-dependent parallel bounds, bounds, write-destination, in that      *)
(* order, and the failure reported is that of the earliest violated check  *)
(* in that order: a snapshot that violates both axis coverage and          *)
(* double-use reports the double-use failure.                              *)
(***************************************************************************)
C3_Order ==
    << "check_for_orphaned_user_hardware_axes",
       "check_for_double_use_of_hw_axes",
       "check_for_unused_hw_axes_in_insns",
       "check_for_inactive_iname_access",
       "check_for_write_races",
       "check_for_data_dependent_parallel_bounds",
       "check_bounds",
       "check_write_destinations" >>

C3_OrderOfChecks == C3_Reports(C3_Order)

\* a snapshot that violates axis coverage and double-use, and has no
\* orphaned axis: the double-use failure is the one reported
C3_Witness ==
    /\ pc = "raised"
    /\ IsOk(check_for_orphaned_user_hardware_axes(kernel))
    /\ ~IsOk(check_for_unused_hw_axes_in_insns(kernel))
    /\ ~IsOk(check_for_double_use_of_hw_axes(kernel))
    /\ exc.msg = "has multiple inames tagged"

(***************************************************************************)
(* C4.  run_automatic_checks is fail-fast: once a checker has failed no    *)
(* later checker is called; the kernel is printed exactly once, before     *)
(* the failure is propagated; the failure propagated is the one that       *)
(* checker raised; when every checker succeeds the run returns and         *)
(* nothing is printed.                                                     *)
(***************************************************************************)
C4_FailFast ==
    /\ \A n \in 1 .. (Len(ran) - 1) : IsOk(call_check(ran[n], kernel))
    /\ pc = "try" => IsOk(exc) /\ output = <<>>
    /\ pc = "except" =>
          /\ output = <<>>
          /\ ~IsOk(exc)
    /\ pc = "raised" =>
          /\ Len(output) = 1
          /\ output[1].kernel = kernel
          /\ ~IsOk(exc)
    /\ pc \in {"except", "raised"} =>
          LET raised == call_check(ran[Len(ran)], kernel)
          IN  /\ exc.type = raised.type
              /\ exc.msg = raised.msg
              /\ exc.insn = raised.insn
    /\ pc = "returned" =>
          /\ IsOk(exc)
          /\ output = <<>>
          /\ Len(ran) = 8
          /\ \A n \in DOMAIN ran : IsOk(call_check(ran[n], kernel))

\* a failure propagated from a snapshot that later checkers, never
\* called, would have failed too
C4_Witness ==
    /\ pc = "raised"
    /\ Len(output) = 1
    /\ Len(ran) < 8
    /\ \E n \in (Len(ran) + 1) .. 8 : ~IsOk(call_check(automatic_checks[n], kernel))

(***************************************************************************)
(* C10.  Within run_automatic_checks the bare RuntimeError of              *)
(* check_write_destinations (a write target that is neither temporary,     *)
(* argument nor domain parameter) is never the failure reported: for a     *)
(* snapshot with an instruction whose write target is neither argument     *)
(* nor temporary, check_for_write_races or an earlier checker fails, so    *)
(* whenever check_write_destinations is called every write target is an    *)
(* argument or a temporary.                                                *)
(***************************************************************************)
C10_Unresolved ==
    {n \in DOMAIN Insns :
        /\ Insns[n].assignee.aggregate \notin DOMAIN kernel.arg_dict
        /\ Insns[n].assignee.aggregate \notin DOMAIN kernel.temporary_variables}

C10_Position(name) == CHOOSE n \in DOMAIN C3_Order : C3_Order[n] = name

C10_UnresolvedTargetNeverReported ==
    /\ (pc = "try" /\ Len(ran) >= C10_Position("check_for_write_races")) =>
          C10_Unresolved = {}
    /\ pc = "returned" => C10_Unresolved = {}
    /\ (Len(ran) > 0 /\ ran[Len(ran)] = "check_write_destinations") =>
          /\ C10_Unresolved = {}
          /\ ~IsOk(exc) => exc.msg # ""
    /\ (C10_Unresolved # {} /\ pc \in {"except", "raised"}) =>
          Len(ran) <= C10_Position("check_for_write_races")

\* an unresolved write target that only check_for_write_races rejects
C10_Witness ==
    /\ pc = "raised"
    /\ C10_Unresolved # {}
    /\ ran[Len(ran)] = "check_for_write_races"
    /\ exc.msg = "invalid assignee name in instruction"

(***************************************************************************)
(* check_write_destinations on its own.                                    *)
(***************************************************************************)
WriteDomains ==
    {<<Box("i", MaxExtent), Box("j", MaxExtent)>>,
     <<ParamBox("i", "n"), Box("j", MaxExtent)>>,
     <<ParamBox("i", "t"), Box("j", MaxExtent)>>,
     <<ParamBox("i", "n"), ParamBox("j", "t")>>,
     <<ParamBox("i", "m"), Box("j", MaxExtent)>>}

WriteInsns ==
    {[BaseInsn EXCEPT !.inames = ins, !.assignee = Ref(w, <<>>)] :
        ins \in SUBSET Inames, w \in {"a", "n", "t", "tp", "i", "x", "m"}}

WriteFillers ==
    {[BaseInsn EXCEPT !.inames = {"j"}, !.assignee = Ref(w, <<>>)] :
        w \in {"a", "t"}}

WriteInsnSeqs == InsnSeqs(WriteInsns, WriteFillers)

InitWrite ==
    \E doms \in WriteDomains, insns \in WriteInsnSeqs :
       Start([BaseKernel EXCEPT !.domains = doms, !.instructions = insns],
             NoImplementedDomains, "start")

call_check_write_destinations == call("check_write_destinations")

NextWrite == call_check_write_destinations

SpecWrite == InitWrite /\ [][NextWrite]_vars

(***************************************************************************)
(* C8.  As stated: check_write_destinations fails iff the write target W   *)
(* of some instruction is a declared iname, or is a domain parameter but   *)
(* not a temporary, or is a parameter of the domain governing the          *)
(* instruction, or does not resolve to exactly one of {temporary,          *)
(* argument, domain parameter}.                                            *)
(***************************************************************************)
C8_IsIname(w) == \E d \in DOMAIN kernel.domains : w \in kernel.domains[d].inames

C8_IsParam(w) == \E d \in DOMAIN kernel.domains : w \in kernel.domains[d].params

C8_IsTemp(w) == w \in DOMAIN kernel.temporary_variables

C8_IsArg(w) == w \in DOMAIN kernel.arg_dict

\* the parameters of the domain governing the instruction
C8_GoverningParams(insn) ==
    UNION {kernel.domains[d].params :
              d \in {e \in DOMAIN kernel.domains :
                         kernel.domains[e].inames \cap insn.inames # {}}}

C8_Resolutions(w) ==
    {kind \in {"temporary", "argument", "parameter"} :
        \/ kind = "temporary" /\ C8_IsTemp(w)
        \/ kind = "argument" /\ C8_IsArg(w)
        \/ kind = "parameter" /\ C8_IsParam(w)}

C8_Illegal(insn) ==
    LET w == insn.assignee.aggregate
    IN  \/ C8_IsIname(w)
        \/ C8_IsParam(w) /\ ~C8_IsTemp(w)
        \/ w \in C8_GoverningParams(insn)

C8_WriteDestinationsAsStated ==
    Called("check_write_destinations") =>
       (~IsOk(exc) <=>
           \E n \in DOMAIN Insns :
              \/ C8_Illegal(Insns[n])
              \/ Cardinality(C8_Resolutions(Insns[n].assignee.aggregate)) # 1)

(***************************************************************************)
(* C8 as amended: ... or does not resolve to any of {temporary, argument,  *)
(* domain parameter}.  A target that is both a temporary and a parameter   *)
(* of a domain other than the one governing its instruction is accepted.   *)
(***************************************************************************)
C8_WriteDestinations ==
    Called("check_write_destinations") =>
       (~IsOk(exc) <=>
           \E n \in DOMAIN Insns :
              \/ C8_Illegal(Insns[n])
              \/ C8_Resolutions(Insns[n].assignee.aggregate) = {})

\* accepted: a temporary that is a parameter of another domain
C8_Witness ==
    /\ Called("check_write_destinations")
    /\ IsOk(exc)
    /\ \E n \in DOMAIN Insns :
          C8_Resolutions(Insns[n].assignee.aggregate) = {"temporary", "parameter"}

(***************************************************************************)
(* check_bounds on its own.                                                *)
(***************************************************************************)
BoundsDomains ==
    {<<Box("i", e), Box("j", MaxExtent)>> : e \in 1 .. MaxExtent}
       \cup {<<ParamBox("i", "n"), Box("j", MaxExtent)>>,
             <<ParamBox("i", "t"), Box("j", MaxExtent)>>}

BoundsShapes ==
    {Shape(<<Const(e)>>) : e \in 1 .. MaxExtent}
       \cup {Shape(<<Var("n")>>), Shape(<<Const(MaxExtent), Const(MaxExtent)>>),
             NoShape}

BoundsReads ==
    {<<>>,
     <<Ref("a", <<Var("i")>>)>>,
     <<Ref("a", <<VarPlus("i", 1)>>)>>,
     <<Ref("a", <<Var("j")>>)>>,
     <<Ref("a", <<Var("t")>>)>>,
     <<Ref("a", <<Product({"i", "j"})>>)>>,
     <<Ref("a", <<Var("i"), Var("j")>>)>>,
     <<Ref("a", <<>>)>>,
     <<Ref("x", <<Var("i")>>)>>,
     <<Ref("tp", <<VarPlus("i", 1)>>), Ref("a", <<Var("i")>>)>>}

BoundsWrites ==
    {Ref("tp", <<Var("i")>>), Ref("a", <<Var("i")>>), Ref("a", <<VarPlus("i", 1)>>)}

BoundsInsns ==
    {[BaseInsn EXCEPT !.inames = ins, !.assignee = w, !.expression = r] :
        ins \in {{"i"}, {"i", "j"}}, w \in BoundsWrites, r \in BoundsReads}

BoundsFillers ==
    {[BaseInsn EXCEPT !.inames = {"i", "j"}, !.assignee = Ref("tp", <<Var("j")>>)]}

BoundsInsnSeqs == InsnSeqs(BoundsInsns, BoundsFillers)

\* snapshots that pass the checks run_automatic_checks calls before
\* check_bounds
InitBounds ==
    \E doms \in BoundsDomains, shape \in BoundsShapes, insns \in BoundsInsnSeqs :
       LET k == [BaseKernel EXCEPT !.domains = doms, !.arg_dict["a"].shape = shape,
                                   !.instructions = insns]
       IN  /\ IsOk(check_for_inactive_iname_access(k))
           /\ IsOk(check_for_write_races(k))
           /\ Start(k, NoImplementedDomains, "start")

call_check_bounds == call("check_bounds")

NextBounds == call_check_bounds

SpecBounds == InitBounds /\ [][NextBounds]_vars

(***************************************************************************)
(* C6.  As stated: check_bounds, for an instruction whose governing domain *)
(* has no temporary among its parameters and a subscripted reference to an *)
(* argument or temporary: (1) the check fails if the subscript arity       *)
(* differs from the declared rank; (2) otherwise it abstains if the access *)
(* range cannot be computed (non-linear subscript); (3) otherwise it fails *)
(* iff the access range is not within 0 <= index[i] < shape[i].            *)
(* Instructions with a temporary among the parameters are skipped.         *)
(***************************************************************************)
C6_Domain(insn) == get_inames_domain(kernel, insn.inames)

C6_Skipped(insn) ==
    C6_Domain(insn).params \cap DOMAIN kernel.temporary_variables # {}

C6_Refs(insn) == insn.expression \o <<insn.assignee>>

C6_Rank(ref) ==
    IF ref.aggregate \in DOMAIN kernel.arg_dict
    THEN kernel.arg_dict[ref.aggregate].shape
    ELSE kernel.temporary_variables[ref.aggregate].shape

\* a subscripted reference to an argument or temporary of declared shape
C6_Checked(ref) ==
    /\ Len(ref.index) > 0
    /\ ref.aggregate \in DOMAIN kernel.arg_dict \cup DOMAIN kernel.temporary_variables
    /\ ~C6_Rank(ref).none

C6_Vars(terms) == UNION {terms[d].vars : d \in DOMAIN terms}

\* the subscript and the shape depend on variables of the domain only
C6_Analyzable(insn, ref) ==
    C6_Vars(ref.index) \cup C6_Vars(C6_Rank(ref).dims)
       \subseteq C6_Domain(insn).inames \cup C6_Domain(insn).params

C6_Linear(ref) == \A d \in DOMAIN ref.index : ref.index[d].op = "lin"

C6_OutOfBounds(insn, ref) ==
    \E p \in C6_Domain(insn).points : \E d \in DOMAIN ref.index :
       \/ Eval(ref.index[d], p) < 0
       \/ Eval(ref.index[d], p) >= Eval(C6_Rank(ref).dims[d], p)

C6_FailsAsStated(insn, ref) ==
    /\ C6_Checked(ref)
    /\ IF Len(ref.index) # Len(C6_Rank(ref).dims) THEN TRUE
       ELSE IF ~C6_Linear(ref) \/ ~C6_Analyzable(insn, ref) THEN FALSE
       ELSE C6_OutOfBounds(insn, ref)

C6_Fails(insn, ref) ==
    /\ C6_Checked(ref)
    /\ C6_Analyzable(insn, ref)
    /\ IF Len(ref.index) # Len(C6_Rank(ref).dims) THEN TRUE
       ELSE IF ~C6_Linear(ref) THEN FALSE
       ELSE C6_OutOfBounds(insn, ref)

C6_BoundsAsStated ==
    Called("check_bounds") =>
       (~IsOk(exc) <=>
           \E n \in DOMAIN Insns :
              /\ ~C6_Skipped(Insns[n])
              /\ \E r \in DOMAIN C6_Refs(Insns[n]) :
                    C6_FailsAsStated(Insns[n], C6_Refs(Insns[n])[r]))

(***************************************************************************)
(* C6 as amended: the same, for a reference whose subscript and whose      *)
(* aggregate's shape depend only on variables (inames, parameters) of the  *)
(* instruction's governing domain and whose aggregate has a declared       *)
(* shape; for any other reference the check abstains, arity mismatch       *)
(* included.  The failure names the first failing instruction and the      *)
(* first failing reference of it, read expression before write target.     *)
(***************************************************************************)
C6_Failing ==
    {n \in DOMAIN Insns :
        /\ ~C6_Skipped(Insns[n])
        /\ \E r \in DOMAIN C6_Refs(Insns[n]) :
              C6_Fails(Insns[n], C6_Refs(Insns[n])[r])}

C6_Bounds ==
    Called("check_bounds") =>
       /\ ~IsOk(exc) <=> C6_Failing # {}
       /\ ~IsOk(exc) =>
             LET insn == Insns[Min(C6_Failing)]
                 first == Min({r \in DOMAIN C6_Refs(insn) :
                                 C6_Fails(insn, C6_Refs(insn)[r])})
                 ref == C6_Refs(insn)[first]
             IN  /\ exc.insn = insn.id
                 /\ exc.info = ref
                 /\ exc.msg = IF Len(ref.index) # Len(C6_Rank(ref).dims)
                              THEN "has the wrong number of indices"
                              ELSE "accesses out-of-bounds array element"

\* an out-of-bounds write found after a read that the check abstains on
\* (a non-linear subscript, or one that depends on a temporary)
C6_Witness ==
    /\ Called("check_bounds")
    /\ exc.msg = "accesses out-of-bounds array element"
    /\ \E n \in DOMAIN Insns :
          /\ exc.insn = Insns[n].id
          /\ exc.info = Insns[n].assignee
          /\ Len(Insns[n].expression) > 0
          /\ C6_Checked(Insns[n].expression[1])
          /\ \/ ~C6_Linear(Insns[n].expression[1])
             \/ ~C6_Analyzable(Insns[n], Insns[n].expression[1])

(***************************************************************************)
(* check_implemented_domains on its own.                                   *)
(***************************************************************************)
\* pieces of one implemented domain: 1..MaxPieces
MaxPieces == 2

\* { 0 <= b <= a < hi }
Triangle(a, b, hi) ==
    [inames |-> {a, b}, params |-> {},
     points |-> {p \in [{a, b} -> Vals] : p[b] <= p[a] /\ p[a] < hi}]

\* [par] -> { : par >= 1 }
AtLeastOne(par) ==
    [inames |-> {}, params |-> {par},
     points |-> {p \in [{par} -> Vals] : p[par] >= 1}]

\* the domains of a snapshot and the assumptions on their parameters
ImplDomains ==
    {[domains |-> <<Box("i", MaxExtent), Box("j", MaxExtent)>>,
      assumptions |-> NoAssumptions],
     [domains |-> <<ParamBox("i", "n"), Box("j", MaxExtent)>>,
      assumptions |-> NoAssumptions],
     [domains |-> <<ParamBox("i", "n"), Box("j", MaxExtent)>>,
      assumptions |-> AtLeastOne("n")],
     [domains |-> <<Triangle("i", "j", MaxExtent)>>,
      assumptions |-> NoAssumptions]}

\* an instruction within i alone, or within the variables of one domain
ImplInsns(domains) ==
    {[BaseInsn EXCEPT !.inames = ins] :
        ins \in {{"i"}} \cup {domains[d].inames : d \in DOMAIN domains}}

ImplFiller == [BaseInsn EXCEPT !.inames = {"j"}]

\* a first piece: the domain, the domain less one point, the domain and one
\* more point, or one point of the domain
Pieces(dom) ==
    {[dom EXCEPT !.points = pts] :
        pts \in {dom.points}
                  \cup {dom.points \ {p} : p \in dom.points}
                  \cup {dom.points \cup {p} :
                           p \in [dom.inames \cup dom.params -> Vals] \ dom.points}
                  \cup {{p} : p \in dom.points}}

\* a further piece: the domain or one point of it
MorePieces(dom) ==
    {[dom EXCEPT !.points = pts] :
        pts \in {dom.points} \cup {{p} : p \in dom.points}}

\* the lists of at most MaxPieces pieces
PieceLists(dom) ==
    {<<>>} \cup
    UNION {{<<first>> \o [n \in 1 .. len - 1 |-> more[n]] :
               first \in Pieces(dom), more \in [1 .. len - 1 -> MorePieces(dom)]} :
           len \in 1 .. MaxPieces}

\* the code handed over for the diagnostic: None or the generated text
Codes == {"None", "code"}

\* the implemented domains of a kernel: a list of pieces for the instruction
\* at position at, and the instruction's own domain for the others listed
InitImpl ==
    \E d \in ImplDomains, len \in 1 .. MaxInsns :
       \E at \in 1 .. len, insn \in ImplInsns(d.domains) :
          LET insns == [n \in 1 .. len |->
                           [(IF n = at THEN insn ELSE ImplFiller)
                               EXCEPT !.id = InsnIds[n]]]
              k == [BaseKernel EXCEPT !.domains = d.domains,
                                      !.assumptions = d.assumptions,
                                      !.instructions = insns]
              own == [n \in 1 .. len |->
                         get_inames_domain(k, insn_inames(k, insns[n]))]
          IN  \E listed \in {{at}, 1 .. len}, idomains \in PieceLists(own[at]) :
                 Start(k,
                       [insn_id \in {insns[n].id : n \in listed} |->
                           IF insn_id = insns[at].id THEN idomains
                           ELSE <<own[CHOOSE n \in listed : insns[n].id = insn_id]>>],
                       "start")

\* the code is printed ahead of the RuntimeError when it was handed over
print_code(out, code, v) ==
    IF v.type = "RuntimeError" /\ code # "None"
    THEN Append(out, [what |-> "CODE", code |-> code])
    ELSE out

call_check_implemented_domains ==
    /\ pc = "start"
    /\ \E code \in Codes :
          \E v \in check_implemented_domains(kernel, implemented_domains) :
             /\ ran' = <<"check_implemented_domains">>
             /\ exc' = v
             /\ output' = print_code(output, code, v)
             /\ pc' = IF IsOk(v) THEN "returned" ELSE "raised"
    /\ UNCHANGED <<kernel, implemented_domains>>

NextImpl == call_check_implemented_domains

SpecImpl == InitImpl /\ [][NextImpl]_vars

C5_Insn(insn_id) == Insns[CHOOSE n \in DOMAIN Insns : Insns[n].id = insn_id]

\* the domain of an instruction: the domains of its iteration variables
C5_Domain(insn_id) == get_inames_domain(kernel, C5_Insn(insn_id).inames)

\* the variables of a projected point: the instruction's iteration
\* variables and the parameters
C5_Vars(insn_id) ==
    C5_Insn(insn_id).inames \cup C5_Domain(insn_id).params
        \cup kernel.assumptions.params

\* project(points /\ assumptions) onto the variables vs
C5_Project(points, vs) ==
    {[v \in vs |-> IF v \in DOMAIN qa[1] THEN qa[1][v] ELSE qa[2][v]] :
        qa \in {qa \in points \X kernel.assumptions.points :
                   \A v \in DOMAIN qa[1] \cap DOMAIN qa[2] : qa[1][v] = qa[2][v]}}

C5_Pieces(insn_id) ==
    UNION {implemented_domains[insn_id][n].points :
              n \in DOMAIN implemented_domains[insn_id]}

\* implemented' and desired of every instruction listed
C5_Projected ==
    [insn_id \in DOMAIN implemented_domains |->
        LET vs == C5_Vars(insn_id)
        IN  [implemented |-> C5_Project(C5_Pieces(insn_id), vs),
             desired |-> C5_Project(C5_Domain(insn_id).points, vs)]]

C5_Implemented(insn_id) == C5_Projected[insn_id].implemented

C5_Desired(insn_id) == C5_Projected[insn_id].desired

C5_Mismatching(projected) ==
    {insn_id \in DOMAIN projected :
        projected[insn_id].implemented # projected[insn_id].desired}

C5_Sides == {"implemented, but not desired", "desired, but not implemented"}

C5_Difference(sets, side) ==
    IF side = "implemented, but not desired"
    THEN sets.implemented \ sets.desired
    ELSE sets.desired \ sets.implemented

C5_SampleLines(side) == {n \in DOMAIN exc.info : exc.info[n].kind = side}

\* C5: when every instruction listed has at least one piece,
\* check_implemented_domains fails exactly when for some instruction
\* project(union(pieces) /\ assumptions) differs from
\* project(domain(instruction) /\ assumptions); the failure is about such an
\* instruction and carries, for each of the two differences, one sample
\* point of that difference when it is non-empty and none when it is empty
C5_ImplementedDomains ==
    (/\ Called("check_implemented_domains")
     /\ \A insn_id \in DOMAIN implemented_domains :
           Len(implemented_domains[insn_id]) > 0)
    => LET projected == C5_Projected
           mismatching == C5_Mismatching(projected)
       IN  /\ (pc = "returned") <=> (mismatching = {})
           /\ pc = "raised" =>
                 /\ exc.type = "RuntimeError"
                 /\ exc.insn \in mismatching
                 /\ \A n \in DOMAIN exc.info : exc.info[n].kind \in C5_Sides
                 /\ \A side \in C5_Sides :
                       LET difference == C5_Difference(projected[exc.insn], side)
                       IN  IF difference = {}
                           THEN C5_SampleLines(side) = {}
                           ELSE /\ Cardinality(C5_SampleLines(side)) = 1
                                /\ \A n \in C5_SampleLines(side) :
                                      exc.info[n].point \in difference

\* C5 happens: desired is { 0 <= i < MaxExtent }, implemented lacks its last
\* point, and the failure carries that point on the desired side only
C5_Witness ==
    /\ Called("check_implemented_domains")
    /\ pc = "raised"
    /\ \E n \in DOMAIN Insns :
          /\ Insns[n].inames = {"i"}
          /\ exc.insn = Insns[n].id
          /\ C5_Desired(Insns[n].id) = {p \in [{"i"} -> Vals] : p["i"] < MaxExtent}
          /\ C5_Implemented(Insns[n].id)
                = {p \in [{"i"} -> Vals] : p["i"] < MaxExtent - 1}
    /\ exc.info = <<[kind |-> "desired, but not implemented",
                     point |-> [v \in {"i"} |-> MaxExtent - 1]]>>

\* C5 happens also when it succeeds: two overlapping pieces, neither of them
\* the domain on its own account, whose union is the domain
C5_Redundant ==
    /\ Called("check_implemented_domains")
    /\ pc = "returned"
    /\ \E insn_id \in DOMAIN implemented_domains :
          /\ Len(implemented_domains[insn_id]) = 2
          /\ implemented_domains[insn_id][1].points # C5_Domain(insn_id).points

====
